---- MODULE Spec2Model ----
(***************************************************************************)
(* Model of tsr/system.py: class TSR.  The state is the cached iso-surface *)
(* helper of one TSR instance plus the frame of the call in progress       *)
(* (render, set_marching_cubes_resolution or extract_mesh).  The program   *)
(* is single-threaded: a new call starts only when no call is in progress. *)
(***************************************************************************)
EXTENDS Integers, Sequences, FiniteSets, TLC

\* ---------------------------------------------------------------- bounds
MaxRes == 2        \* resolutions are 1..MaxRes
NumCodes == 2      \* distinct scene codes handed to render
MaxBatch == 2      \* scene codes per call
MaxViews == 2      \* n_views is 0..MaxViews
NumPix == 2        \* channel values per image tensor
Scale == 40        \* channel values are the grid x = k/Scale, k in 0..Scale

Resolutions == 1..MaxRes
CodeIds == 1..NumCodes
Levels == 0..Scale

\* ---------------------------------------------------------------- values
None == [tag |-> "None"]
Pending == [tag |-> "pending"]
Unset == [tag |-> "unset"]

\* the stage of extract_mesh at which the queries on a scene code fail
\* ("none": every stage succeeds when it is given a grid)
Stages == {"density", "iso", "color", "assembly"}
Fates == Stages \cup {"none"}

\* a scene code handed to extract_mesh: scene_codes[id - 1], a slice of the
\* batch, with the stage at which its queries fail
MeshCodes == [id : 1..MaxBatch, fail : Fates]

RECURSIVE SeqsUpTo(_, _)
SeqsUpTo(S, n) ==
    IF n = 0 THEN {<<>>}
    ELSE LET shorter == SeqsUpTo(S, n - 1)
         IN  shorter \cup {Append(q, x) : q \in {p \in shorter : Len(p) = n - 1}, x \in S}

\* scene_codes of extract_mesh: the slices of one batch, in order
MeshBatches ==
    {[i \in 1..Len(fs) |-> [id |-> i, fail |-> fs[i]]] : fs \in SeqsUpTo(Fates, MaxBatch)}
RenderBatches == SeqsUpTo(CodeIds, MaxBatch)
ReturnTypes == {"pt", "np", "pil", "jpg"}
Tensors == [1..NumPix -> Levels]
ProbeTensors == {[p \in 1..NumPix |-> 0], [p \in 1..NumPix |-> Scale]}

VARIABLES
    helper,     \* self.isosurface_helper: None or the cached MarchingCubeHelper
    pc,         \* position of the call in progress; "idle" when there is none,
                \* "returned" when it has ended and the caller holds its outcome
    op,         \* the method called ("none" when idle)
    args,       \* its arguments, with the outcome of the opaque collaborators
    idx,        \* extract_mesh: position of scene_code in scene_codes
    meshes,     \* extract_mesh: local list meshes
    density,    \* extract_mesh: local density
    v_pos,      \* extract_mesh: local v_pos
    t_pos_idx,  \* extract_mesh: local t_pos_idx
    color,      \* extract_mesh: local color
    ret,        \* outcome of the last call: None, a value, or a raised exception
    log,        \* error-severity log entries of the last call
    pre,        \* the cached helper when the last call was entered
    built,      \* whether the last call invoked the MarchingCubeHelper constructor
    grad,       \* torch.is_grad_enabled()
    qmodes,     \* the gradient modes under which the call made decoder queries
    trace,      \* the modules / stages the call has run, in order
    image,      \* process_output: the image tensor handed in
    rtype,      \* process_output: return_type of the enclosing render
    out         \* process_output: its outcome

vars == <<helper, pc, op, args, idx, meshes, density, v_pos, t_pos_idx,
          color, ret, log, pre, built, grad, qmodes, trace, image, rtype, out>>
pilvars == <<image, rtype, out>>

\* ------------------------------------------------- render.process_output
\* variant: the scale factor is 256, so that 1.0 leaves the byte range
ToUint8_Times256(k) == ((k * 256) \div Scale) % 256

\* numpy float -> uint8 cast of x * 255.0 for x = k/Scale in [0,1]: the
\* fractional part is dropped
ToUint8(k) == ((k * 255) \div Scale) % 256

\* the nearest integer to x * 255 for x = k/Scale (ties upward)
Round255(k) == (2 * k * 255 + Scale) \div (2 * Scale)

process_output(return_type, img) ==
    IF return_type = "pt" THEN [tag |-> "pt", code |-> img.code, ray |-> img.ray, data |-> img.data]
    ELSE IF return_type = "np" THEN [tag |-> "np", code |-> img.code, ray |-> img.ray, data |-> img.data]
    ELSE IF return_type = "pil" THEN
        [tag |-> "pil", code |-> img.code, ray |-> img.ray,
         data |-> [p \in DOMAIN img.data |-> ToUint8(img.data[p])]]
    ELSE [tag |-> "raise", exc |-> "NotImplementedError"]

\* ------------------------------------------------------------ TSR.render
\* get_spherical_cameras(n_views, ...): one ray bundle per view, rays_o[i]
\* and rays_d[i] for i in range(n_views)
get_spherical_cameras(n_views) == [i \in 1..n_views |-> i - 1]

\* self.renderer(self.decoder, scene_code, rays_o[i], rays_d[i])
renderer(scene_code, ray, tensor) == [code |-> scene_code, ray |-> ray, data |-> tensor]

\* ------------------------------------------------------ torch.no_grad()
\* variant: leaving the scope switches gradient tracking on
no_grad_exit_Enable(ctx) == TRUE

\* entering the scope saves the mode and disables gradient tracking
no_grad_enter(g) == [prev |-> g, mode |-> FALSE]

\* leaving the scope, normally or by an exception, restores the saved mode
no_grad_exit(ctx) == ctx.prev

\* a decoder query made inside `with torch.no_grad():` when the mode is
\* st.grad: the mode the query runs under is recorded, the scope is left
no_grad_query(st) ==
    LET ctx == no_grad_enter(st.grad)
    IN  [grad |-> no_grad_exit(ctx), modes |-> st.modes \cup {ctx.mode}]

\* `with torch.no_grad():` whose body raises before any query is made
no_grad_pass(st) ==
    LET ctx == no_grad_enter(st.grad)
    IN  [grad |-> no_grad_exit(ctx), modes |-> st.modes]

\* variant: every view is rendered with the rays of the first view
RECURSIVE render_views_FirstRay(_, _, _, _, _, _, _, _)
render_views_FirstRay(scene_code, rays, n_views, return_type, env, st, i, images_) ==
    IF i >= n_views THEN [tag |-> "ok", val |-> images_, st |-> st]
    ELSE LET st1 == no_grad_query(st)
         IN  IF ~env.ok THEN [tag |-> "raise", exc |-> "RendererError", st |-> st1]
             ELSE LET img == renderer(scene_code, rays[1], env.tensor)
                      o == process_output(return_type, img)
                  IN  IF o.tag = "raise"
                      THEN [tag |-> "raise", exc |-> o.exc, st |-> st1]
                      ELSE render_views_FirstRay(scene_code, rays, n_views, return_type,
                                                 env, st1, i + 1, Append(images_, o))

\* for i in range(n_views): with torch.no_grad(): image = self.renderer(...)
\* images_.append(process_output(image)); env is the renderer (the image
\* data it yields, whether it raises), st the gradient mode
RECURSIVE render_views(_, _, _, _, _, _, _, _)
render_views(scene_code, rays, n_views, return_type, env, st, i, images_) ==
    IF i >= n_views THEN [tag |-> "ok", val |-> images_, st |-> st]
    ELSE LET st1 == no_grad_query(st)
         IN  IF ~env.ok THEN [tag |-> "raise", exc |-> "RendererError", st |-> st1]
             ELSE LET img == renderer(scene_code, rays[i + 1], env.tensor)
                      o == process_output(return_type, img)
                  IN  IF o.tag = "raise"
                      THEN [tag |-> "raise", exc |-> o.exc, st |-> st1]
                      ELSE render_views(scene_code, rays, n_views, return_type,
                                        env, st1, i + 1, Append(images_, o))

\* for scene_code in scene_codes: ... images.append(images_)
RECURSIVE render_codes(_, _, _, _, _, _, _, _)
render_codes(scene_codes, rays, n_views, return_type, env, st, s, images) ==
    IF s > Len(scene_codes) THEN [tag |-> "value", val |-> images, st |-> st]
    ELSE LET r == render_views(scene_codes[s], rays, n_views, return_type, env, st, 0, <<>>)
         IN  IF r.tag = "raise" THEN r
             ELSE render_codes(scene_codes, rays, n_views, return_type, env, r.st,
                               s + 1, Append(images, r.val))

render(scene_codes, n_views, return_type, env, st) ==
    render_codes(scene_codes, get_spherical_cameras(n_views), n_views,
                 return_type, env, st, 1, <<>>)

\* what the caller of a method gets: its value or the exception raised
Outcome(r) ==
    IF r.tag = "raise" THEN [tag |-> "raise", exc |-> r.exc]
    ELSE [tag |-> "value", val |-> r.val]

\* --------------------------------------- TSR.set_marching_cubes_resolution
\* MarchingCubeHelper(resolution): a new object, distinct from the helper h
\* cached so far (object identity is observable only against that one)
MarchingCubeHelper(h, resolution) ==
    [tag |-> "helper", id |-> IF h = None THEN 1 ELSE 3 - h.id,
     resolution |-> resolution]

\* variant: the cached resolution is not compared
CacheHit_Never(h, resolution) == FALSE

\* if self.isosurface_helper is not None and its resolution == resolution
CacheHit(h, resolution) == h # None /\ h.resolution = resolution

\* variant: the cached helper is dropped before the constructor is invoked
set_marching_cubes_resolution_Drop(h, resolution, build_ok) ==
    IF h # None /\ h.resolution = resolution
    THEN [helper |-> h, built |-> FALSE, raised |-> FALSE, log |-> <<>>]
    ELSE IF build_ok
    THEN [helper |-> MarchingCubeHelper(h, resolution),
          built |-> TRUE, raised |-> FALSE, log |-> <<>>]
    ELSE [helper |-> None, built |-> TRUE, raised |-> FALSE,
          log |-> <<[stage |-> "resolution", code |-> 0]>>]

\* the method: the cached helper after the call, whether the constructor was
\* invoked, whether an exception left the method, and its error log
set_marching_cubes_resolution(h, resolution, build_ok) ==
    IF CacheHit(h, resolution)
    THEN [helper |-> h, built |-> FALSE, raised |-> FALSE, log |-> <<>>]
    ELSE IF build_ok
    THEN [helper |-> MarchingCubeHelper(h, resolution),
          built |-> TRUE, raised |-> FALSE, log |-> <<>>]
    ELSE [helper |-> h, built |-> TRUE, raised |-> FALSE,
          log |-> <<[stage |-> "resolution", code |-> 0]>>]

\* ------------------------------------------------------- TSR.extract_mesh
\* scale_tensor(points, self.isosurface_helper.points_range, (-radius, radius))
scale_tensor(points) == [points EXCEPT !.space = "physical"]

\* self.isosurface_helper.grid_vertices: the resolution^3 points of the grid
grid_vertices(h) ==
    [grid |-> h.id, res |-> h.resolution,
     n |-> h.resolution * h.resolution * h.resolution, space |-> "grid"]

\* self.renderer.query_triplane(self.decoder, points, scene_code)["density_act"]:
\* one density per queried point
query_density(points, scene_code) ==
    [code |-> scene_code, grid |-> points.grid, res |-> points.res, n |-> points.n]

\* self.isosurface_helper(-(density - threshold)): vertices in grid space and
\* triangles over them; the surface depends on the scene code and on the grid
isosurface(h, level) ==
    LET n == level.code.id + level.res + 1
    IN  [v_pos |-> [code |-> level.code, grid |-> level.grid, res |-> level.res,
                    n |-> n, space |-> "grid"],
         t_pos_idx |-> {<<j, (j + 1) % n, (j + 2) % n>> : j \in 0..(n - 1)}]

\* self.renderer.query_triplane(self.decoder, points, scene_code)["color"]:
\* one color per queried point
query_color(points, scene_code) == [code |-> scene_code, n |-> points.n]

\* trimesh.Trimesh(vertices=..., faces=..., vertex_colors=...)
Trimesh(vertices, faces, vertex_colors) ==
    [code |-> vertices.code, grid |-> vertices.grid, res |-> vertices.res,
     space |-> vertices.space, vertices |-> vertices.n, faces |-> faces,
     colors |-> vertex_colors.n, color_code |-> vertex_colors.code]

\* variant: after the loop the (empty) list of meshes is returned
LoopHead_ReturnsList(scene_codes, i) ==
    IF i > Len(scene_codes)
    THEN [pc |-> "returned", idx |-> Len(scene_codes), ret |-> [tag |-> "list", val |-> <<>>]]
    ELSE [pc |-> "density", idx |-> i, ret |-> Pending]

\* head of `for scene_code in scene_codes`: take item i, or leave the loop
\* and fall off the end of the function (implicit return None)
LoopHead(scene_codes, i) ==
    IF i > Len(scene_codes)
    THEN [pc |-> "returned", idx |-> Len(scene_codes), ret |-> None]
    ELSE [pc |-> "density", idx |-> i, ret |-> Pending]

\* variant: the except handler leaves the loop
Continue_Break(scene_codes, i) ==
    [pc |-> "returned", idx |-> i, ret |-> None]

\* `continue` in an except handler of item i
Continue(scene_codes, i) == LoopHead(scene_codes, i + 1)

\* variant: colors are queried at the grid vertices
ColorPoints_Grid(h, vpos) == scale_tensor(grid_vertices(h))

\* the points at which the color query of the item is made (line 219)
ColorPoints(h, vpos) == vpos

\* `return meshes` at the end of the loop body (line 241)
ReturnMeshes(ms) == [tag |-> "list", val |-> ms]

\* ----------------------------------------------------------- TSR.forward
\* the opaque modules in the order forward invokes them (lines 90-110)
Pipeline ==
    <<"image_processor", "image_tokenizer", "tokenizer", "backbone",
      "detokenize", "post_processor">>

Modules == {Pipeline[k] : k \in DOMAIN Pipeline}

\* variant: a failing module is skipped and the pipeline goes on
RECURSIVE forward_from_Swallow(_, _, _, _)
forward_from_Swallow(k, batch_size, fail, called) ==
    IF k > Len(Pipeline)
    THEN [tag |-> "value", val |-> [b \in 1..batch_size |-> b], called |-> called]
    ELSE forward_from_Swallow(k + 1, batch_size, fail,
                              Append(called, [stage |-> Pipeline[k], code |-> 0]))

\* forward from its k-th module call on: the module named fail raises, the
\* others return; the result is one scene code per image of the batch
RECURSIVE forward_from(_, _, _, _)
forward_from(k, batch_size, fail, called) ==
    IF k > Len(Pipeline)
    THEN [tag |-> "value", val |-> [b \in 1..batch_size |-> b], called |-> called]
    ELSE LET now == Append(called, [stage |-> Pipeline[k], code |-> 0])
         IN  IF Pipeline[k] = fail
             THEN [tag |-> "raise", exc |-> fail, called |-> now]
             ELSE forward_from(k + 1, batch_size, fail, now)

forward(batch_size, fail) == forward_from(1, batch_size, fail, <<>>)

\* variant: the return is placed after the loop
EndOfBody_AfterLoop(scene_codes, i, ms) ==
    IF i < Len(scene_codes)
    THEN [pc |-> "density", idx |-> i + 1, ret |-> Pending]
    ELSE [pc |-> "returned", idx |-> i, ret |-> ReturnMeshes(ms)]

\* end of the loop body of item i (lines 240-241): `return meshes`
EndOfBody(scene_codes, i, ms) ==
    [pc |-> "returned", idx |-> i, ret |-> ReturnMeshes(ms)]

Init ==
    /\ helper = None
    /\ pc = "idle"
    /\ op = "none"
    /\ args = None
    /\ idx = 0
    /\ meshes = <<>>
    /\ density = Unset
    /\ v_pos = Unset
    /\ t_pos_idx = Unset
    /\ color = Unset
    /\ ret = None
    /\ log = <<>>
    /\ pre = None
    /\ built = FALSE
    /\ grad \in BOOLEAN
    /\ qmodes = {}
    /\ trace = <<>>
    /\ image = [p \in 1..NumPix |-> 0]
    /\ rtype = "pil"
    /\ out = Pending

SetResolutionCall(resolution, build_ok) ==
    /\ pc = "idle"
    /\ LET r == set_marching_cubes_resolution(helper, resolution, build_ok)
       IN  /\ helper' = r.helper
           /\ built' = r.built
           /\ log' = r.log
           /\ ret' = IF r.raised THEN [tag |-> "raise", exc |-> "Exception"] ELSE None
    /\ pre' = helper
    /\ op' = "set_marching_cubes_resolution"
    /\ args' = [resolution |-> resolution, build_ok |-> build_ok]
    /\ pc' = "returned"
    /\ qmodes' = {}
    /\ trace' = <<>>
    /\ UNCHANGED grad
    /\ idx' = 0
    /\ meshes' = <<>>
    /\ density' = Unset
    /\ v_pos' = Unset
    /\ t_pos_idx' = Unset
    /\ color' = Unset
    /\ UNCHANGED pilvars

RenderCall(scene_codes, n_views, return_type, tensor, renderer_ok) ==
    /\ pc = "idle"
    /\ LET r == render(scene_codes, n_views, return_type,
                       [tensor |-> tensor, ok |-> renderer_ok],
                       [grad |-> grad, modes |-> {}])
       IN  /\ ret' = Outcome(r)
           /\ grad' = r.st.grad
           /\ qmodes' = r.st.modes
    /\ trace' = <<>>
    /\ pre' = helper
    /\ built' = FALSE
    /\ log' = <<>>
    /\ op' = "render"
    /\ args' = [scene_codes |-> scene_codes, n_views |-> n_views,
                return_type |-> return_type, tensor |-> tensor,
                renderer_ok |-> renderer_ok]
    /\ pc' = "returned"
    /\ idx' = 0
    /\ meshes' = <<>>
    /\ density' = Unset
    /\ v_pos' = Unset
    /\ t_pos_idx' = Unset
    /\ color' = Unset
    /\ UNCHANGED helper
    /\ UNCHANGED pilvars

\* extract_mesh, lines 169-176: the Setup step and entry into the loop
ExtractMeshCall(scene_codes, resolution, build_ok) ==
    /\ pc = "idle"
    /\ LET r == set_marching_cubes_resolution(helper, resolution, build_ok)
           nxt == LoopHead(scene_codes, 1)
       IN  /\ helper' = r.helper
           /\ built' = r.built
           /\ log' = r.log
           /\ IF r.raised
              THEN /\ pc' = "returned"
                   /\ idx' = 0
                   /\ ret' = None
              ELSE /\ pc' = nxt.pc
                   /\ idx' = nxt.idx
                   /\ ret' = nxt.ret
    /\ pre' = helper
    /\ op' = "extract_mesh"
    /\ args' = [scene_codes |-> scene_codes, resolution |-> resolution, build_ok |-> build_ok]
    /\ qmodes' = {}
    /\ trace' = <<>>
    /\ UNCHANGED grad
    /\ meshes' = <<>>
    /\ density' = Unset
    /\ v_pos' = Unset
    /\ t_pos_idx' = Unset
    /\ color' = Unset
    /\ UNCHANGED pilvars

\* variant: the failure is logged under the message of the enclosing handler
StageFailed_Generic(stage) ==
    LET nxt == Continue(args.scene_codes, idx)
    IN  /\ log' = Append(log, [stage |-> "scene code", code |-> idx])
        /\ pc' = nxt.pc
        /\ idx' = nxt.idx
        /\ ret' = nxt.ret

\* variant: the except handler logs and falls through to the next stage
StageFailed_NoContinue(stage) ==
    /\ log' = Append(log, [stage |-> stage, code |-> idx])
    /\ pc' = CASE stage = "density" -> "iso"
               [] stage = "iso" -> "color"
               [] stage = "color" -> "assembly"
               [] OTHER -> "returned"
    /\ idx' = idx
    /\ ret' = IF stage = "assembly" THEN ReturnMeshes(meshes) ELSE ret

\* an except handler of the loop body: log the stage, continue
StageFailed(stage) ==
    LET nxt == Continue(args.scene_codes, idx)
    IN  /\ log' = Append(log, [stage |-> stage, code |-> idx])
        /\ pc' = nxt.pc
        /\ idx' = nxt.idx
        /\ ret' = nxt.ret

\* lines 179-199: density query on the cached grid
DensityQuery ==
    /\ pc = "density"
    /\ trace' = Append(trace, [stage |-> "density", code |-> idx])
    /\ LET scene_code == args.scene_codes[idx]
           st == [grad |-> grad, modes |-> qmodes]
           st1 == IF helper = None THEN no_grad_pass(st) ELSE no_grad_query(st)
       IN  /\ grad' = st1.grad
           /\ qmodes' = st1.modes
           /\ IF helper = None \/ scene_code.fail = "density"
              THEN /\ StageFailed("density")
                   /\ UNCHANGED density
              ELSE /\ density' = query_density(scale_tensor(grid_vertices(helper)), scene_code)
                   /\ pc' = "iso"
                   /\ UNCHANGED <<idx, ret, log>>
    /\ UNCHANGED <<helper, op, args, meshes, v_pos, t_pos_idx, color, pre, built>>
    /\ UNCHANGED pilvars

\* variant: a failed extraction invalidates the cached helper
IsoSurface_Invalidates ==
    /\ pc = "iso"
    /\ trace' = Append(trace, [stage |-> "iso", code |-> idx])
    /\ UNCHANGED <<grad, qmodes>>
    /\ LET scene_code == args.scene_codes[idx]
       IN  IF helper = None \/ scene_code.fail = "iso"
           THEN /\ StageFailed("iso")
                /\ helper' = None
                /\ UNCHANGED <<v_pos, t_pos_idx>>
           ELSE LET s == isosurface(helper, density)
                IN  /\ v_pos' = scale_tensor(s.v_pos)
                    /\ t_pos_idx' = s.t_pos_idx
                    /\ pc' = "color"
                    /\ UNCHANGED <<helper, idx, ret, log>>
    /\ UNCHANGED <<op, args, meshes, density, color, pre, built>>
    /\ UNCHANGED pilvars

\* lines 201-212: iso-surface extraction and rescaling of the vertices
IsoSurface ==
    /\ pc = "iso"
    /\ trace' = Append(trace, [stage |-> "iso", code |-> idx])
    /\ UNCHANGED <<grad, qmodes>>
    /\ LET scene_code == args.scene_codes[idx]
       IN  IF helper = None \/ scene_code.fail = "iso"
           THEN /\ StageFailed("iso")
                /\ UNCHANGED <<v_pos, t_pos_idx>>
           ELSE LET s == isosurface(helper, density)
                IN  /\ v_pos' = scale_tensor(s.v_pos)
                    /\ t_pos_idx' = s.t_pos_idx
                    /\ pc' = "color"
                    /\ UNCHANGED <<idx, ret, log>>
    /\ UNCHANGED <<helper, op, args, meshes, density, color, pre, built>>
    /\ UNCHANGED pilvars

\* lines 214-225: color query at the surface vertices
ColorQuery ==
    /\ pc = "color"
    /\ trace' = Append(trace, [stage |-> "color", code |-> idx])
    /\ LET scene_code == args.scene_codes[idx]
           st1 == no_grad_query([grad |-> grad, modes |-> qmodes])
       IN  /\ grad' = st1.grad
           /\ qmodes' = st1.modes
           /\ IF scene_code.fail = "color"
              THEN /\ StageFailed("color")
                   /\ UNCHANGED color
              ELSE /\ color' = query_color(ColorPoints(helper, v_pos), scene_code)
                   /\ pc' = "assembly"
                   /\ UNCHANGED <<idx, ret, log>>
    /\ UNCHANGED <<helper, op, args, meshes, density, v_pos, t_pos_idx, pre, built>>
    /\ UNCHANGED pilvars

\* lines 227-241: assembly, append, and the return at the end of the loop body
Assembly ==
    /\ pc = "assembly"
    /\ trace' = Append(trace, [stage |-> "assembly", code |-> idx])
    /\ UNCHANGED <<grad, qmodes>>
    /\ LET scene_code == args.scene_codes[idx]
       IN  IF scene_code.fail = "assembly"
           THEN /\ StageFailed("assembly")
                /\ UNCHANGED meshes
           ELSE LET mesh == Trimesh(v_pos, t_pos_idx, color)
                    nxt == EndOfBody(args.scene_codes, idx, Append(meshes, mesh))
                IN  /\ meshes' = Append(meshes, mesh)
                    /\ ret' = nxt.ret
                    /\ pc' = nxt.pc
                    /\ idx' = nxt.idx
                    /\ UNCHANGED log
    /\ UNCHANGED <<helper, op, args, density, v_pos, t_pos_idx, color, pre, built>>
    /\ UNCHANGED pilvars

\* forward, lines 78-111
ForwardCall(batch_size, fail) ==
    /\ pc = "idle"
    /\ LET r == forward(batch_size, fail)
       IN  /\ ret' = Outcome(r)
           /\ trace' = r.called
    /\ pre' = helper
    /\ built' = FALSE
    /\ log' = <<>>
    /\ op' = "forward"
    /\ args' = [batch_size |-> batch_size, fail |-> fail]
    /\ pc' = "returned"
    /\ idx' = 0
    /\ meshes' = <<>>
    /\ density' = Unset
    /\ v_pos' = Unset
    /\ t_pos_idx' = Unset
    /\ color' = Unset
    /\ qmodes' = {}
    /\ UNCHANGED <<helper, grad>>
    /\ UNCHANGED pilvars

\* the call has ended: the caller takes its outcome and the frame is gone
ReturnToCaller ==
    /\ pc = "returned"
    /\ pc' = "idle"
    /\ op' = "none"
    /\ args' = None
    /\ idx' = 0
    /\ meshes' = <<>>
    /\ density' = Unset
    /\ v_pos' = Unset
    /\ t_pos_idx' = Unset
    /\ color' = Unset
    /\ ret' = None
    /\ log' = <<>>
    /\ pre' = None
    /\ built' = FALSE
    /\ qmodes' = {}
    /\ trace' = <<>>
    /\ UNCHANGED grad
    /\ UNCHANGED helper
    /\ UNCHANGED pilvars

Next ==
    \/ \E r \in Resolutions, ok \in BOOLEAN : SetResolutionCall(r, ok)
    \/ \E b \in RenderBatches, n \in 0..MaxViews, rt \in ReturnTypes, t \in ProbeTensors,
          ok \in BOOLEAN :
          RenderCall(b, n, rt, t, ok)
    \/ \E b \in MeshBatches, r \in Resolutions, ok \in BOOLEAN : ExtractMeshCall(b, r, ok)
    \/ \E n \in 1..MaxBatch, f \in Modules \cup {"none"} : ForwardCall(n, f)
    \/ DensityQuery
    \/ IsoSurface
    \/ ColorQuery
    \/ Assembly
    \/ ReturnToCaller

Spec == Init /\ [][Next]_vars

\* ------------------------------------------ process_output on its own
\* the image tensor is any tensor over the grid of channel values
InitPil ==
    /\ helper = None
    /\ pc = "idle"
    /\ op = "none"
    /\ args = None
    /\ idx = 0
    /\ meshes = <<>>
    /\ density = Unset
    /\ v_pos = Unset
    /\ t_pos_idx = Unset
    /\ color = Unset
    /\ ret = None
    /\ log = <<>>
    /\ pre = None
    /\ built = FALSE
    /\ grad = TRUE
    /\ qmodes = {}
    /\ trace = <<>>
    /\ image \in Tensors
    /\ rtype \in ReturnTypes
    /\ out = Pending

ProcessOutputStep ==
    /\ out = Pending
    /\ out' = process_output(rtype, renderer(1, 0, image))
    /\ UNCHANGED <<helper, pc, op, args, idx, meshes, density, v_pos,
                   t_pos_idx, color, ret, log, pre, built, grad, qmodes, trace,
                   image, rtype>>

NextPil == ProcessOutputStep

SpecPil == InitPil /\ [][NextPil]_vars

\* ================================================================ claims
Done(o) == pc = "returned" /\ op = o
SetupRan == op \in {"set_marching_cubes_resolution", "extract_mesh"}
BuildFailed == SetupRan /\ built /\ ~args.build_ok
SetupSucceeded == SetupRan /\ (built => args.build_ok)
Succeeds(scene_code) == scene_code.fail = "none"

\* C1: when the grid build of the Setup step fails, extract_mesh returns
\* None, whatever helper was cached before the call.
C1_SetupFailureReturnsNone ==
    (Done("extract_mesh") /\ BuildFailed) => ret = None

\* C2: a stage failure on a scene code never raises out of extract_mesh and
\* never ends the loop: the failing scene code contributes no mesh, the loop
\* goes on to the next scene code, and a batch of one failing and one
\* succeeding scene code (either order) yields exactly the mesh of the
\* succeeding one.
C2_AtReturn ==
    Done("extract_mesh") =>
        /\ ret.tag # "raise"
        /\ ret.tag = "list" =>
              \A k \in DOMAIN ret.val : Succeeds(ret.val[k].code)
        /\ (helper # None /\ \E i \in DOMAIN args.scene_codes : Succeeds(args.scene_codes[i])) =>
              /\ ret.tag = "list"
              /\ \E k \in DOMAIN ret.val : Succeeds(ret.val[k].code)
        /\ (helper # None /\ Len(args.scene_codes) = 2) =>
              \A i \in 1..2 :
                  (Succeeds(args.scene_codes[i]) /\ ~Succeeds(args.scene_codes[3 - i])) =>
                      /\ ret.tag = "list"
                      /\ \E k \in DOMAIN ret.val : ret.val[k].code = args.scene_codes[i]
                      /\ \A k \in DOMAIN ret.val : ret.val[k].code # args.scene_codes[3 - i]

C2_AfterFailure ==
    (pc \in Stages /\ Len(log') > Len(log)) =>
        /\ log'[Len(log')].code = idx
        /\ meshes' = meshes
        /\ IF idx < Len(args.scene_codes)
           THEN pc' = "density" /\ idx' = idx + 1 /\ ret' = Pending
           ELSE pc' = "returned" /\ ret' = None

C2_StageFailureIsolated == [](C2_AtReturn) /\ [][C2_AfterFailure]_vars

C2_Witness ==
    /\ Done("extract_mesh")
    /\ Len(args.scene_codes) = 2
    /\ args.scene_codes[1].fail = "density"
    /\ Succeeds(args.scene_codes[2])
    /\ Len(log) = 1
    /\ ret.tag = "list"
    /\ ret.val[1].code = args.scene_codes[2]

\* the mesh the four stages build for a scene code on the grid of helper h
MeshFor(h, scene_code) ==
    LET d == query_density(scale_tensor(grid_vertices(h)), scene_code)
        s == isosurface(h, d)
        v == scale_tensor(s.v_pos)
    IN  Trimesh(v, s.t_pos_idx, query_color(v, scene_code))

RECURSIVE MeshesOfSucceeding(_, _)
MeshesOfSucceeding(h, scene_codes) ==
    IF scene_codes = <<>> THEN <<>>
    ELSE IF Succeeds(Head(scene_codes))
    THEN <<MeshFor(h, Head(scene_codes))>> \o MeshesOfSucceeding(h, Tail(scene_codes))
    ELSE MeshesOfSucceeding(h, Tail(scene_codes))

\* C3: when the Setup step succeeds, extract_mesh returns the sequence of the
\* meshes of all scene codes whose four stages succeed, in input order (the
\* empty sequence when there is none).
C3_ReturnsAllSucceeding ==
    (Done("extract_mesh") /\ SetupSucceeded) =>
        ret = [tag |-> "list", val |-> MeshesOfSucceeding(helper, args.scene_codes)]

\* C4: set_marching_cubes_resolution(r) invokes the grid constructor iff no
\* helper is cached or the cached resolution differs from r; on a cache hit
\* the cached helper stays the very same object, and a completed build at a
\* different resolution replaces it by a new object of resolution r; a call
\* repeated with the resolution the previous call left cached builds nothing.
C4_AfterCall ==
    SetupRan =>
        /\ built <=> (pre = None \/ pre.resolution # args.resolution)
        /\ ~built => helper = pre
        /\ (built /\ args.build_ok) =>
              /\ helper # pre
              /\ helper.resolution = args.resolution
              /\ pre # None => helper.id # pre.id

C4_Repeated ==
    (/\ pc = "idle"
     /\ op' = "set_marching_cubes_resolution"
     /\ helper # None /\ helper.resolution = args'.resolution) =>
        (~built' /\ helper' = helper)

C4_RebuildIffResolutionDiffers == [](C4_AfterCall) /\ [][C4_Repeated]_vars

C4_Witness ==
    /\ Done("set_marching_cubes_resolution")
    /\ ~built
    /\ pre # None
    /\ helper = pre
    /\ helper.resolution = args.resolution

\* C5: when the grid constructor raises inside set_marching_cubes_resolution,
\* the call returns normally and the cached helper is the one cached before
\* the call (None, or the old grid at the old resolution).
C5_BuildFailureKeepsHelper ==
    BuildFailed =>
        /\ helper = pre
        /\ ret.tag # "raise"
        /\ Done("set_marching_cubes_resolution") => ret = None
        /\ pre # None => helper.resolution # args.resolution

C5_Witness ==
    /\ Done("set_marching_cubes_resolution")
    /\ BuildFailed
    /\ pre # None
    /\ helper = pre

ValidReturnTypes == {"pt", "np", "pil"}

\* C6: for return_type pt, np or pil, render returns one entry per scene code
\* in input order, each holding exactly n_views images, the image at [s][v]
\* being the one rendered from scene code s with the rays of view v.
C6_RenderShape ==
    (Done("render") /\ args.renderer_ok /\ args.return_type \in ValidReturnTypes) =>
        /\ ret.tag = "value"
        /\ Len(ret.val) = Len(args.scene_codes)
        /\ \A s \in DOMAIN ret.val :
              /\ Len(ret.val[s]) = args.n_views
              /\ \A v \in DOMAIN ret.val[s] :
                    /\ ret.val[s][v].tag = args.return_type
                    /\ ret.val[s][v].code = args.scene_codes[s]
                    /\ ret.val[s][v].ray = get_spherical_cameras(args.n_views)[v]

C6_Witness ==
    /\ Done("render")
    /\ args.renderer_ok
    /\ args.return_type = "pil"
    /\ args.n_views = 2
    /\ Len(args.scene_codes) = 2
    /\ args.scene_codes[1] # args.scene_codes[2]
    /\ ret.tag = "value"
    /\ Len(ret.val) = 2

\* C7: for a return_type other than pt, np and pil, render ends in
\* NotImplementedError for every batch and every n_views, the empty batch
\* and n_views = 0 included.
C7_UnknownReturnTypeRaises ==
    (Done("render") /\ args.renderer_ok /\ args.return_type \notin ValidReturnTypes) =>
        ret = [tag |-> "raise", exc |-> "NotImplementedError"]

\* C8: with return_type pil, every channel value x = k/Scale in [0,1] is
\* converted to the byte round(x * 255).
C8_PilRoundsToNearest ==
    (out.tag = "pil") =>
        \A p \in DOMAIN image : out.data[p] = Round255(image[p])

\* C9: with return_type pil, an all-zero image tensor converts to an image
\* whose every pixel is 0 and an all-one tensor to one whose every pixel is
\* 255.
C9_PilZeroAndOne ==
    (out # Pending /\ rtype = "pil") =>
        /\ out.tag = "pil"
        /\ DOMAIN out.data = DOMAIN image
        /\ (\A p \in DOMAIN image : image[p] = 0) =>
              \A p \in DOMAIN out.data : out.data[p] = 0
        /\ (\A p \in DOMAIN image : image[p] = Scale) =>
              \A p \in DOMAIN out.data : out.data[p] = 255

C9_Witness ==
    /\ out.tag = "pil"
    /\ \A p \in DOMAIN image : image[p] = Scale

ValidMesh(m) ==
    /\ \A f \in m.faces : \A j \in 1..3 : f[j] >= 0 /\ f[j] < m.vertices
    /\ m.colors = m.vertices
    /\ m.color_code = m.code

\* C10: in every mesh extract_mesh puts in its result, the three indices of
\* every triangle are below the number of vertices and there is one color
\* per vertex, queried at the vertices of that same scene code.
C10_MeshWellFormed ==
    /\ \A k \in DOMAIN meshes : ValidMesh(meshes[k])
    /\ (op = "extract_mesh" /\ ret.tag = "list") =>
          \A k \in DOMAIN ret.val : ValidMesh(ret.val[k])

C10_Witness ==
    /\ Done("extract_mesh")
    /\ ret.tag = "list"
    /\ Len(ret.val) = 1
    /\ ret.val[1].faces # {}
    /\ ret.val[1].vertices >= 3

\* C11: every decoder query of render and extract_mesh runs with gradient
\* tracking disabled, and the mode is restored when the query ends, by
\* return or by exception: no step of a call changes the mode, so a call
\* ends in the mode it was entered in.
C11_QueriesRunWithoutGrad ==
    op \in {"render", "extract_mesh"} => qmodes \subseteq {FALSE}

C11_ModeRestored == grad' = grad

C11_NoGradScoped == [](C11_QueriesRunWithoutGrad) /\ [][C11_ModeRestored]_vars

C11_Witness ==
    /\ Done("extract_mesh")
    /\ grad = TRUE
    /\ qmodes = {FALSE}
    /\ \E k \in DOMAIN log : log[k].stage = "color"

\* C12: the cached helper is changed only by the Setup step (a completed
\* build inside set_marching_cubes_resolution); forward, render and the four
\* stages of extract_mesh leave it as it is, on success and on failure, so
\* all scene codes of one extract_mesh call are processed on the same grid.
C12_OnlySetupChanges ==
    helper' # helper =>
        /\ pc = "idle"
        /\ op' \in {"set_marching_cubes_resolution", "extract_mesh"}
        /\ built' /\ args'.build_ok
        /\ helper'.resolution = args'.resolution

OnCachedGrid(x) == helper # None /\ x.grid = helper.id /\ x.res = helper.resolution

C12_SameGrid ==
    /\ op \in {"forward", "render"} => helper = pre
    /\ op = "extract_mesh" =>
          /\ density # Unset => OnCachedGrid(density)
          /\ v_pos # Unset => OnCachedGrid(v_pos)
          /\ \A k \in DOMAIN meshes : OnCachedGrid(meshes[k])

C12_HelperFrame == [](C12_SameGrid) /\ [][C12_OnlySetupChanges]_vars

C12_Witness ==
    /\ Done("extract_mesh")
    /\ Len(args.scene_codes) = 2
    /\ \E k \in DOMAIN log : log[k].stage = "iso"
    /\ ret.tag = "list"
    /\ helper # None
    /\ OnCachedGrid(ret.val[1])

\* C13: in forward, a failure raised by an opaque module reaches the caller
\* as that same failure; no later module of the pipeline is invoked and no
\* scene code is returned.  Without a failure every module is invoked once,
\* in order, and one scene code per image is returned.
C13_ForwardPropagates ==
    Done("forward") =>
        IF args.fail \in Modules
        THEN /\ ret = [tag |-> "raise", exc |-> args.fail]
             /\ trace[Len(trace)].stage = args.fail
             /\ Len(trace) <= Len(Pipeline)
             /\ \A k \in DOMAIN trace : trace[k].stage = Pipeline[k]
        ELSE /\ ret.tag = "value"
             /\ Len(ret.val) = args.batch_size
             /\ Len(trace) = Len(Pipeline)
             /\ \A k \in DOMAIN trace : trace[k].stage = Pipeline[k]

C13_Witness ==
    /\ Done("forward")
    /\ args.fail = "backbone"
    /\ ret = [tag |-> "raise", exc |-> "backbone"]
    /\ Len(trace) = 4

Failed(c) == \E l \in DOMAIN log : log[l].code = c
StagesOf(c) == SelectSeq(trace, LAMBDA e : e.code = c)
StageOrder == <<"density", "iso", "color", "assembly">>
Completed(c) == Len(StagesOf(c)) = Len(StageOrder) /\ ~Failed(c)

\* C14 as stated: no stage of extract_mesh is ever run on a scene code other
\* than the first one of the batch.
C14_OnlyFirstProcessed ==
    op = "extract_mesh" => \A k \in DOMAIN trace : trace[k].code = 1

\* C14 amended: extract_mesh returns right after the first scene code whose
\* four stages all succeeded; a stage is run on a scene code only when every
\* scene code before it failed, and when no scene code completes, every
\* scene code of the batch is processed.
C14_StopsAfterFirstCompleted ==
    op = "extract_mesh" =>
        /\ meshes # <<>> =>
              /\ pc = "returned"
              /\ Len(meshes) = 1
              /\ trace[Len(trace)] = [stage |-> "assembly", code |-> idx]
        /\ \A k \in DOMAIN trace : \A j \in 1..(trace[k].code - 1) : Failed(j)
        /\ (pc = "returned" /\ meshes = <<>>) =>
              \A j \in DOMAIN args.scene_codes : StagesOf(j) # <<>> /\ Failed(j)

C14_Witness ==
    /\ Done("extract_mesh")
    /\ Len(args.scene_codes) = 2
    /\ Succeeds(args.scene_codes[1]) /\ Succeeds(args.scene_codes[2])
    /\ ret.tag = "list"
    /\ StagesOf(1) # <<>>
    /\ StagesOf(2) = <<>>

\* C15: for each scene code the stages run in the order density, iso-surface,
\* color, assembly, each at most once and only after the previous stage of
\* that scene code succeeded; no stage of a scene code runs after one of its
\* stages failed, and a mesh is appended only after all four succeeded.
C15_StageOrderPerCode ==
    op = "extract_mesh" =>
        /\ \A c \in DOMAIN args.scene_codes :
              /\ Len(StagesOf(c)) <= Len(StageOrder)
              /\ \A k \in DOMAIN StagesOf(c) : StagesOf(c)[k].stage = StageOrder[k]
        /\ \A k \in DOMAIN trace : k > 1 => trace[k - 1].code <= trace[k].code
        /\ \A l \in DOMAIN log : log[l].code >= 1 =>
              LET sc == StagesOf(log[l].code)
              IN  sc # <<>> /\ sc[Len(sc)].stage = log[l].stage
        /\ pc \in Stages =>
              /\ ~Failed(idx)
              /\ Len(StagesOf(idx)) < Len(StageOrder)
              /\ StageOrder[Len(StagesOf(idx)) + 1] = pc
        /\ \A k \in DOMAIN meshes : Completed(meshes[k].code.id)

C15_Witness ==
    /\ Done("extract_mesh")
    /\ ret.tag = "list"
    /\ Len(StagesOf(1)) = 2 /\ Failed(1)
    /\ Len(StagesOf(2)) = 4 /\ Completed(2)

\* the stage run on scene code c raised: its own query failed, or (density
\* stage) there was no cached helper to take the grid from
Raised(stage, c) ==
    \/ args.scene_codes[c].fail = stage
    \/ stage = "density" /\ helper = None

\* C16: every failure of a per-scene-code stage of extract_mesh emits exactly
\* one error log entry, which names the stage that failed; there is no such
\* entry for a stage that succeeded or did not run.
C16_OneErrorPerFailedStage ==
    op = "extract_mesh" =>
        /\ \A l \in DOMAIN log : log[l].code >= 1 =>
              /\ log[l].stage \in Stages
              /\ \E k \in DOMAIN trace : trace[k] = log[l]
              /\ Raised(log[l].stage, log[l].code)
        /\ \A k \in DOMAIN trace :
              Raised(trace[k].stage, trace[k].code) =>
                  Cardinality({l \in DOMAIN log : log[l] = trace[k]}) = 1
        /\ \A c \in DOMAIN args.scene_codes :
              Cardinality({l \in DOMAIN log : log[l].code = c}) <= 1

C16_Witness ==
    /\ Done("extract_mesh")
    /\ helper # None
    /\ Len(args.scene_codes) = 2
    /\ \E l \in DOMAIN log : log[l] = [stage |-> "assembly", code |-> 1]
    /\ \E l \in DOMAIN log : log[l] = [stage |-> "color", code |-> 2]
    /\ Len(trace) = 7

\* C17: extract_mesh returns None or a list of exactly one mesh, the mesh of
\* the first scene code in input order whose four stages all succeeded;
\* never an empty list, never two meshes; and None exactly when no scene
\* code of the batch completed all four stages.
C17_NoneOrFirstMesh ==
    Done("extract_mesh") =>
        /\ ret = None \/ (ret.tag = "list" /\ Len(ret.val) = 1)
        /\ ret = None <=> \A c \in DOMAIN args.scene_codes : ~Completed(c)
        /\ ret = None <=>
              (helper = None \/ \A c \in DOMAIN args.scene_codes : ~Succeeds(args.scene_codes[c]))
        /\ ret # None =>
              LET c == ret.val[1].code.id
              IN  /\ ret.val[1] = MeshFor(helper, args.scene_codes[c])
                  /\ Completed(c)
                  /\ Succeeds(args.scene_codes[c])
                  /\ \A j \in 1..(c - 1) : ~Completed(j) /\ ~Succeeds(args.scene_codes[j])

C17_Witness ==
    /\ Done("extract_mesh")
    /\ SetupSucceeded
    /\ helper # None
    /\ Len(args.scene_codes) = 2
    /\ Failed(1) /\ Failed(2)
    /\ ret = None

\* C18: every mesh returned by extract_mesh(scene_codes, resolution=r) was
\* extracted from a grid of resolution r.
C18_MeshOnRequestedGrid ==
    (Done("extract_mesh") /\ ret.tag = "list") =>
        \A k \in DOMAIN ret.val : ret.val[k].res = args.resolution
====
